---- MODULE Spec2Model ----
(***************************************************************************)
(* ROI align in NCHW layout (topi/python/topi/vision/rcnn/roi_align.py).   *)
(*                                                                         *)
(* roi_align_nchw builds, for every output coordinate (n, i, c, ph, pw),   *)
(* the expression _sample(n, i, c, ph, pw): a max-reduction over the       *)
(* reduce axes rh, rw of _bilinear at a sample point inside the bin.       *)
(*                                                                         *)
(* Floating-point values are modelled as exact rationals <<num, den>> in   *)
(* lowest terms with den > 0 (rounding error is abstracted away).          *)
(* The output tensor is evaluated by one or several workers, each owning   *)
(* a slice of it.  A worker takes the elements of its slice in any order,  *)
(* evaluates _sample for each with its own locals, and writes the element; *)
(* the steps of different workers interleave freely.  Inside one element   *)
(* the reduce axes are walked rh outer, rw inner.                          *)
(***************************************************************************)
EXTENDS Integers, Sequences, FiniteSets, TLC

VARIABLES
    data,           \* feature map  [batch][channel][height][width]
    rois,           \* ROI tensor   [num_img][num_roi][4]
    pooled_size,    \* <<k>> for an int argument, <<h, w>> for a pair
    spatial_scale,  \* rational
    sample_ratio,   \* integer
    beyond,         \* what a load outside the feature-map buffer yields
    pc,             \* the call: "call", "run", "done", "fault", "error"
    env,            \* closure of roi_align_nchw: shapes and pooled sizes
    output,         \* the elements written so far: coordinate -> value
    at,             \* per worker: "idle", "roi", "reduce"
    idx,            \* per worker: <<n, i, c, ph, pw>> of its element
    loc,            \* per worker: locals of _sample
    rh, rw,         \* per worker: position on the reduce axes
    acc,            \* per worker: accumulator of the max reduction
    smp             \* per worker: its last _bilinear evaluation

inputs == <<data, rois, pooled_size, spatial_scale, sample_ratio, beyond>>
vars == <<data, rois, pooled_size, spatial_scale, sample_ratio, beyond,
          pc, env, output, at, idx, loc, rh, rw, acc, smp>>

(***************************************************************************)
(* Bounds of the model.                                                    *)
(***************************************************************************)
Height == 2
Width == 3
MaxImg == 2
MaxRoi == 2
MaxChannel == 2
MaxPooled == 2
MaxSampleRatio == 2
MaxElems == 2
NumWorkers == 2

(***************************************************************************)
(* Exact rational arithmetic standing for the float arithmetic of the      *)
(* tensor expressions.                                                     *)
(***************************************************************************)
Abs(a) == IF a < 0 THEN -a ELSE a

RECURSIVE Gcd(_, _)
Gcd(a, b) == IF b = 0 THEN a ELSE Gcd(b, a % b)

Rat(n, d) ==
    LET g == Gcd(Abs(n), Abs(d))
        s == IF d < 0 THEN -1 ELSE 1
    IN  <<(s * n) \div g, (s * d) \div g>>

FromInt(k) == <<k, 1>>
Zero == <<0, 1>>
One == <<1, 1>>

RAdd(a, b) == Rat(a[1] * b[2] + b[1] * a[2], a[2] * b[2])
RSub(a, b) == Rat(a[1] * b[2] - b[1] * a[2], a[2] * b[2])
RMul(a, b) == Rat(a[1] * b[1], a[2] * b[2])
RDiv(a, b) == Rat(a[1] * b[2], a[2] * b[1])
RLt(a, b) == a[1] * b[2] < b[1] * a[2]
RLe(a, b) == a[1] * b[2] <= b[1] * a[2]
RMax(a, b) == IF RLt(a, b) THEN b ELSE a
RFloor(a) == a[1] \div a[2]
RCeil(a) == -((-a[1]) \div a[2])

\* identity element of the max reduction: below every value
min_value == <<-1, 0>>
\* a load that faults instead of yielding a value
Fault == <<1, 0>>

(***************************************************************************)
(* Inputs.                                                                 *)
(***************************************************************************)
Fill(b, c, y, x) ==
    LET v == 1 + x + Width * y + Width * Height * c
    IN  FromInt(IF (b + c) % 2 = 1 THEN -v ELSE v)

FeatureMap(nb, nc) ==
    [b \in 0..(nb - 1) |-> [c \in 0..(nc - 1) |->
        [y \in 0..(Height - 1) |-> [x \in 0..(Width - 1) |-> Fill(b, c, y, x)]]]]

FeatureMaps == {FeatureMap(nb, nc) : nb \in 1..MaxImg, nc \in 1..MaxChannel}

\* (start, end) of a box along one axis, in raw image coordinates
Spans == {<<0, 2>>, <<1, 1>>, <<3, 1>>, <<-1, 1>>, <<-4, -3>>}

\* [w_start, h_start, w_end, h_end]
BoxesOf(spans) ==
    {<<FromInt(sw[1]), FromInt(sh[1]), FromInt(sw[2]), FromInt(sh[2])>> :
        sw \in spans, sh \in spans}

Boxes == BoxesOf(Spans)

Transposed(b) == <<b[2], b[1], b[4], b[3]>>

RoiTensor(ni, nr, b) ==
    [n \in 0..(ni - 1) |-> [i \in 0..(nr - 1) |->
        IF (n + i) % 2 = 0 THEN b ELSE Transposed(b)]]

RoiTensorsOf(boxes) ==
    {RoiTensor(ni, nr, b) : ni \in 1..MaxImg, nr \in 1..MaxRoi, b \in boxes}

RoiTensors == RoiTensorsOf(Boxes)

\* an int k, or a pair (h, w); the pair (k, k) builds the same closure as k
PooledSizes == {<<k>> : k \in (-1)..MaxPooled} \cup
               {hw \in ((-1)..MaxPooled) \X ((-1)..MaxPooled) : hw[1] # hw[2]}

Scales == {<<1, 1>>, <<1, 2>>}

SampleRatios == (-2)..MaxSampleRatio

\* the calls evaluated by several workers: boxes that reach over the border
\* of the map and differ from their transposed, so that the ROIs of a tensor
\* differ from one another; the adaptive grid and two fixed ones
WorkerSpans == {<<0, 2>>, <<-1, 1>>}

WorkerBoxes == {b \in BoxesOf(WorkerSpans) : b # Transposed(b)}

WorkerSampleRatios == {-1, 1, 2}

WorkerCounts == 1..NumWorkers

OobOutcomes == {Fault, <<0, 1>>, <<99, 1>>}

Size(f) == Cardinality(DOMAIN f)

PooledH(ps) == ps[1]
PooledW(ps) == IF Len(ps) = 1 THEN ps[1] ELSE ps[2]

NumElems(d, r, ps) == Size(r) * Size(r[0]) * Size(d[0]) * PooledH(ps) * PooledW(ps)

NoLoc == [roi_start_h |-> Zero, roi_start_w |-> Zero, roi_end_h |-> Zero,
          roi_end_w |-> Zero, roi_h |-> Zero, roi_w |-> Zero,
          bin_h |-> Zero, bin_w |-> Zero,
          roi_bin_grid_h |-> 0, roi_bin_grid_w |-> 0, count |-> 0]

NoSmp == [y |-> Zero, x |-> Zero, outside |-> FALSE, loads |-> {}, val |-> Zero]

NoEnv == [channel |-> 0, height |-> 0, width |-> 0, num_img |-> 0, num_roi |-> 0,
          pooled_size_h |-> 0, pooled_size_w |-> 0]

InitWith(validated, tensors, ratios, counts) ==
    /\ data \in FeatureMaps
    /\ rois \in tensors
    /\ pooled_size \in PooledSizes
    /\ spatial_scale \in Scales
    /\ sample_ratio \in ratios
    /\ NumElems(data, rois, pooled_size) <= MaxElems
    /\ validated => /\ Size(rois) <= Size(data)
                    /\ PooledH(pooled_size) > 0
                    /\ PooledW(pooled_size) > 0
    /\ beyond \in IF Size(rois) > Size(data) THEN OobOutcomes ELSE {Zero}
    /\ pc = "call"
    /\ env = NoEnv
    /\ output = <<>>
    /\ \E k \in counts :
        /\ at = [w \in 1..k |-> "idle"]
        /\ idx = [w \in 1..k |-> <<>>]
        /\ loc = [w \in 1..k |-> NoLoc]
        /\ rh = [w \in 1..k |-> 0]
        /\ rw = [w \in 1..k |-> 0]
        /\ acc = [w \in 1..k |-> min_value]
        /\ smp = [w \in 1..k |-> NoSmp]

\* calls whose arguments satisfy the documented contract, evaluated by one
\* worker
Init == InitWith(TRUE, RoiTensors, SampleRatios, {1})

\* any call: the function itself checks nothing
InitAny == InitWith(FALSE, RoiTensors, SampleRatios, {1})

\* calls whose arguments satisfy the documented contract, evaluated by one
\* or several workers
InitWorkers ==
    InitWith(TRUE, RoiTensorsOf(WorkerBoxes), WorkerSampleRatios, WorkerCounts)

(***************************************************************************)
(* roi_align_nchw: the closure variables (lines 53-59).  height and width  *)
(* are the sizes of the two last axes of data.                             *)
(***************************************************************************)
Closure(d, r, ps) ==
    [channel |-> Size(d[0]), height |-> Size(d[0][0]), width |-> Size(d[0][0][0]),
     num_img |-> Size(r), num_roi |-> Size(r[0]),
     pooled_size_h |-> IF Len(ps) = 1 THEN ps[1] ELSE ps[1],
     pooled_size_w |-> IF Len(ps) = 1 THEN ps[1] ELSE ps[2]]

\* the coordinates of the tensor tvm.compute builds (line 100)
Elements(e) ==
    {<<n, i, c, ph, pw>> : n \in 0..(e.num_img - 1), i \in 0..(e.num_roi - 1),
        c \in 0..(e.channel - 1), ph \in 0..(e.pooled_size_h - 1),
        pw \in 0..(e.pooled_size_w - 1)}

(***************************************************************************)
(* Loads of the feature map.  A load outside the buffer is undefined: it   *)
(* yields whatever beyond is in this run.                                  *)
(***************************************************************************)
InBounds(input, b, c, y, x) ==
    /\ b \in DOMAIN input
    /\ c \in DOMAIN input[b]
    /\ y \in DOMAIN input[b][c]
    /\ x \in DOMAIN input[b][c][y]

Load(input, b, c, y, x) ==
    IF InBounds(input, b, c, y, x) THEN input[b][c][y][x] ELSE beyond

(***************************************************************************)
(* bilinear_sample_nchw (topi.cpp.image): the four neighbouring grid       *)
(* points of (y, x), each index clamped to max_y / max_x, and the          *)
(* interpolation between them.                                             *)
(***************************************************************************)
ClampIndex(k, max_k) == IF k > max_k THEN max_k ELSE k

Neighbours(indices, max_y, max_x) ==
    [y0 |-> ClampIndex(RFloor(indices[3]), max_y),
     y1 |-> ClampIndex(RCeil(indices[3]), max_y),
     x0 |-> ClampIndex(RFloor(indices[4]), max_x),
     x1 |-> ClampIndex(RCeil(indices[4]), max_x)]

LoadsOf(indices, max_y, max_x) ==
    LET nb == Neighbours(indices, max_y, max_x)
    IN  {<<indices[1], indices[2], yy, xx>> : yy \in {nb.y0, nb.y1}, xx \in {nb.x0, nb.x1}}

bilinear_sample_nchw(input, indices, max_y, max_x) ==
    LET nb == Neighbours(indices, max_y, max_x)
        b == indices[1]
        c == indices[2]
        y_lerp == RSub(indices[3], FromInt(RFloor(indices[3])))
        x_lerp == RSub(indices[4], FromInt(RFloor(indices[4])))
        A == Load(input, b, c, nb.y0, nb.x0)
        B == Load(input, b, c, nb.y0, nb.x1)
        C == Load(input, b, c, nb.y1, nb.x0)
        D == Load(input, b, c, nb.y1, nb.x1)
    IN  RAdd(RAdd(RMul(RMul(A, RSub(One, x_lerp)), RSub(One, y_lerp)),
                  RMul(RMul(B, x_lerp), RSub(One, y_lerp))),
             RAdd(RMul(RMul(C, RSub(One, x_lerp)), y_lerp),
                  RMul(RMul(D, x_lerp), y_lerp)))

(***************************************************************************)
(* _bilinear (lines 61-66).                                                *)
(***************************************************************************)
\* mutant: height and width are swapped in the upper tests
OutsideSwapped(y, x) ==
    \/ RLt(y, FromInt(-1))
    \/ RLt(x, FromInt(-1))
    \/ RLt(FromInt(env.width), y)
    \/ RLt(FromInt(env.height), x)

Outside(y, x) ==
    \/ RLt(y, FromInt(-1))
    \/ RLt(x, FromInt(-1))
    \/ RLt(FromInt(env.height), y)
    \/ RLt(FromInt(env.width), x)

\* mutant: the index clamps are the sizes, not the last indices
SamplerArgsSizeClamp(i, c, y, x) ==
    [indices |-> <<i, c, RMax(y, Zero), RMax(x, Zero)>>,
     max_y |-> env.height,
     max_x |-> env.width]

\* the index tuple and the index clamps handed to bilinear_sample_nchw
SamplerArgs(i, c, y, x) ==
    [indices |-> <<i, c, RMax(y, Zero), RMax(x, Zero)>>,
     max_y |-> env.height - 1,
     max_x |-> env.width - 1]

\* the feature-map elements one evaluation loads (none when outside)
BilinearLoads(i, c, y, x) ==
    LET a == SamplerArgs(i, c, y, x)
    IN  IF Outside(y, x) THEN {} ELSE LoadsOf(a.indices, a.max_y, a.max_x)

_bilinear(i, c, y, x) ==
    LET a == SamplerArgs(i, c, y, x)
    IN  IF Outside(y, x) THEN Zero
        ELSE bilinear_sample_nchw(data, a.indices, a.max_y, a.max_x)

(***************************************************************************)
(* _sample (lines 68-98).                                                  *)
(***************************************************************************)
\* mutant: the ROI is always the first one of the image
RoiAtFirst(rs, n, i) == rs[n][0]

\* roi = rois[n][i]
RoiAt(rs, n, i) == rs[n][i]

\* mutant: the extent of a malformed ROI is not forced to 1
RoiGeometryNoFloor(roi, scale) ==
    LET start_w == RMul(roi[1], scale)
        start_h == RMul(roi[2], scale)
        end_w == RMul(roi[3], scale)
        end_h == RMul(roi[4], scale)
    IN  [roi_start_h |-> start_h, roi_start_w |-> start_w,
         roi_end_h |-> end_h, roi_end_w |-> end_w,
         roi_h |-> RSub(end_h, start_h),
         roi_w |-> RSub(end_w, start_w)]

\* lines 71-79: the box in feature-map units and its extent
RoiGeometry(roi, scale) ==
    LET start_w == RMul(roi[1], scale)
        start_h == RMul(roi[2], scale)
        end_w == RMul(roi[3], scale)
        end_h == RMul(roi[4], scale)
    IN  [roi_start_h |-> start_h, roi_start_w |-> start_w,
         roi_end_h |-> end_h, roi_end_w |-> end_w,
         roi_h |-> RMax(RSub(end_h, start_h), One),
         roi_w |-> RMax(RSub(end_w, start_w), One)]

\* mutant: sample_ratio = 0 counts as a fixed ratio
GridSizesFromZero(roi_h, roi_w, ps_h, ps_w, ratio) ==
    IF ratio >= 0
    THEN [h |-> ratio, w |-> ratio]
    ELSE [h |-> RCeil(RDiv(roi_h, FromInt(ps_h))),
          w |-> RCeil(RDiv(roi_w, FromInt(ps_w)))]

\* mutant: the adaptive grid along w is computed from the h extent
GridSizesFromHeight(roi_h, roi_w, ps_h, ps_w, ratio) ==
    IF ratio > 0
    THEN [h |-> ratio, w |-> ratio]
    ELSE [h |-> RCeil(RDiv(roi_h, FromInt(ps_h))),
          w |-> RCeil(RDiv(roi_h, FromInt(ps_h)))]

\* lines 84-88: the number of sample points of a bin along each axis
GridSizes(roi_h, roi_w, ps_h, ps_w, ratio) ==
    IF ratio > 0
    THEN [h |-> ratio, w |-> ratio]
    ELSE [h |-> RCeil(RDiv(roi_h, FromInt(ps_h))),
          w |-> RCeil(RDiv(roi_w, FromInt(ps_w)))]

\* lines 81-94: bin size, grid, and the start of bin (ph, pw)
BinGrid(g, ps_h, ps_w, ratio, ph, pw) ==
    LET bin_h == RDiv(g.roi_h, FromInt(ps_h))
        bin_w == RDiv(g.roi_w, FromInt(ps_w))
        grid == GridSizes(g.roi_h, g.roi_w, ps_h, ps_w, ratio)
    IN  [roi_start_h |-> RAdd(g.roi_start_h, RMul(FromInt(ph), bin_h)),
         roi_start_w |-> RAdd(g.roi_start_w, RMul(FromInt(pw), bin_w)),
         roi_end_h |-> g.roi_end_h, roi_end_w |-> g.roi_end_w,
         roi_h |-> g.roi_h, roi_w |-> g.roi_w,
         bin_h |-> bin_h, bin_w |-> bin_w,
         roi_bin_grid_h |-> grid.h, roi_bin_grid_w |-> grid.w,
         count |-> grid.h * grid.w]

\* mutant: the offset is divided by grid, not grid + 1
SamplePointOverGrid(start, r, bin, grid) ==
    RAdd(start, RDiv(RMul(FromInt(r + 1), bin), FromInt(grid)))

\* lines 96-97: start + (r + 1.0) * bin / (grid + 1.0)
SamplePoint(start, r, bin, grid) ==
    RAdd(start, RDiv(RMul(FromInt(r + 1), bin), FromInt(grid + 1)))

\* mutant: the samples of a bin are summed, as an average pooling would
CombineSum(a, v) == IF a = <<-1, 0>> THEN v ELSE RAdd(a, v)

\* the combiner of tvm.max over the reduce axes (line 95)
Combine(a, v) == RMax(a, v)

\* the reduction over [rh, rw] from position (r, w) on, with accumulator a
RECURSIVE ReduceFrom(_, _, _, _, _, _)
ReduceFrom(l, b, c, r, w, a) ==
    IF r >= l.roi_bin_grid_h \/ l.roi_bin_grid_w <= 0 THEN a
    ELSE LET v == _bilinear(b, c,
                      SamplePoint(l.roi_start_h, r, l.bin_h, l.roi_bin_grid_h),
                      SamplePoint(l.roi_start_w, w, l.bin_w, l.roi_bin_grid_w))
             last == w + 1 >= l.roi_bin_grid_w
         IN  ReduceFrom(l, b, c, IF last THEN r + 1 ELSE r, IF last THEN 0 ELSE w + 1,
                        Combine(a, v))

\* the value of _sample(n, i, c, ph, pw) for the ROI tensor rs and sample ratio
SampleOf(rs, ratio, n, i, c, ph, pw) ==
    LET g == RoiGeometry(RoiAt(rs, n, i), spatial_scale)
        l == BinGrid(g, env.pooled_size_h, env.pooled_size_w, ratio, ph, pw)
    IN  ReduceFrom(l, n, c, 0, 0, min_value)

_sample(n, i, c, ph, pw) == SampleOf(rois, sample_ratio, n, i, c, ph, pw)

(***************************************************************************)
(* Actions.                                                                *)
(***************************************************************************)
\* what building the compute expression leads to: the function raises
\* nothing itself, but with a pooled size of 0 lines 81-82 divide by a constant
\* zero, which the expression library may or may not reject
BuildOutcomes(e) ==
    IF e.pooled_size_h = 0 \/ e.pooled_size_w = 0 THEN {"run", "error"} ELSE {"run"}

\* the workers the tensor is evaluated by
Workers == DOMAIN at

\* row-major offset of an element in the output tensor (shape of line 100)
Linear(e) ==
    (((e[1] * env.num_roi + e[2]) * env.channel + e[3]) * env.pooled_size_h + e[4])
        * env.pooled_size_w + e[5]

\* the slice of the output worker w owns: the elements are dealt to the
\* workers in turn
Slice(w) == {e \in Elements(env) : Linear(e) % Size(at) = w - 1}

\* lines 52-59 and 100: shapes, pooled sizes, the output tensor
roi_align_nchw ==
    /\ pc = "call"
    /\ env' = Closure(data, rois, pooled_size)
    /\ pc' \in BuildOutcomes(Closure(data, rois, pooled_size))
    /\ UNCHANGED <<inputs, output, at, idx, loc, rh, rw, acc, smp>>

\* _sample lines 69-79: worker w takes an element of its slice not yet
\* computed
MapRoi(w, n, i, c, ph, pw) ==
    /\ pc = "run"
    /\ w \in Workers
    /\ at[w] = "idle"
    /\ <<n, i, c, ph, pw>> \in Slice(w) \ DOMAIN output
    /\ idx' = [idx EXCEPT ![w] = <<n, i, c, ph, pw>>]
    /\ loc' = [loc EXCEPT ![w] = [NoLoc EXCEPT
                 !.roi_start_h = RoiGeometry(RoiAt(rois, n, i), spatial_scale).roi_start_h,
                 !.roi_start_w = RoiGeometry(RoiAt(rois, n, i), spatial_scale).roi_start_w,
                 !.roi_end_h = RoiGeometry(RoiAt(rois, n, i), spatial_scale).roi_end_h,
                 !.roi_end_w = RoiGeometry(RoiAt(rois, n, i), spatial_scale).roi_end_w,
                 !.roi_h = RoiGeometry(RoiAt(rois, n, i), spatial_scale).roi_h,
                 !.roi_w = RoiGeometry(RoiAt(rois, n, i), spatial_scale).roi_w]]
    /\ at' = [at EXCEPT ![w] = "roi"]
    /\ UNCHANGED <<inputs, pc, env, output, rh, rw, acc, smp>>

\* _sample lines 81-94
SampleGrid(w) ==
    /\ pc = "run"
    /\ w \in Workers
    /\ at[w] = "roi"
    /\ loc' = [loc EXCEPT ![w] = BinGrid(loc[w], env.pooled_size_h, env.pooled_size_w,
                                         sample_ratio, idx[w][4], idx[w][5])]
    /\ rh' = [rh EXCEPT ![w] = 0]
    /\ rw' = [rw EXCEPT ![w] = 0]
    /\ acc' = [acc EXCEPT ![w] = min_value]
    /\ at' = [at EXCEPT ![w] = "reduce"]
    /\ UNCHANGED <<inputs, pc, env, output, idx, smp>>

ReduceDone(w) == rh[w] >= loc[w].roi_bin_grid_h \/ loc[w].roi_bin_grid_w <= 0

\* one point (rh, rw) of the reduction of lines 95-98
ReduceStep(w) ==
    /\ pc = "run"
    /\ w \in Workers
    /\ at[w] = "reduce"
    /\ ~ReduceDone(w)
    /\ LET y == SamplePoint(loc[w].roi_start_h, rh[w], loc[w].bin_h, loc[w].roi_bin_grid_h)
           x == SamplePoint(loc[w].roi_start_w, rw[w], loc[w].bin_w, loc[w].roi_bin_grid_w)
           loads == BilinearLoads(idx[w][1], idx[w][3], y, x)
           faults == /\ beyond = Fault
                     /\ \E l \in loads : ~InBounds(data, l[1], l[2], l[3], l[4])
           last == rw[w] + 1 >= loc[w].roi_bin_grid_w
       IN  IF faults
           THEN /\ pc' = "fault"
                /\ smp' = [smp EXCEPT ![w] = [y |-> y, x |-> x, outside |-> Outside(y, x),
                                              loads |-> loads, val |-> Zero]]
                /\ UNCHANGED <<acc, rh, rw>>
           ELSE /\ pc' = pc
                /\ smp' = [smp EXCEPT ![w] =
                             [y |-> y, x |-> x, outside |-> Outside(y, x), loads |-> loads,
                              val |-> _bilinear(idx[w][1], idx[w][3], y, x)]]
                /\ acc' = [acc EXCEPT ![w] =
                             Combine(acc[w], _bilinear(idx[w][1], idx[w][3], y, x))]
                /\ rh' = [rh EXCEPT ![w] = IF last THEN rh[w] + 1 ELSE rh[w]]
                /\ rw' = [rw EXCEPT ![w] = IF last THEN 0 ELSE rw[w] + 1]
    /\ UNCHANGED <<inputs, env, output, at, idx, loc>>

\* the reduced value becomes output[n, i, c, ph, pw]
StoreElement(w) ==
    /\ pc = "run"
    /\ w \in Workers
    /\ at[w] = "reduce"
    /\ ReduceDone(w)
    /\ output' = output @@ (idx[w] :> acc[w])
    /\ idx' = [idx EXCEPT ![w] = <<>>]
    /\ loc' = [loc EXCEPT ![w] = NoLoc]
    /\ rh' = [rh EXCEPT ![w] = 0]
    /\ rw' = [rw EXCEPT ![w] = 0]
    /\ acc' = [acc EXCEPT ![w] = min_value]
    /\ smp' = [smp EXCEPT ![w] = NoSmp]
    /\ at' = [at EXCEPT ![w] = "idle"]
    /\ UNCHANGED <<inputs, pc, env>>

\* every element is computed: the tensor is returned
Return ==
    /\ pc = "run"
    /\ DOMAIN output = Elements(env)
    /\ pc' = "done"
    /\ UNCHANGED <<inputs, env, output, at, idx, loc, rh, rw, acc, smp>>

Next ==
    \/ roi_align_nchw
    \/ \E w \in Workers : \E e \in Elements(env) : MapRoi(w, e[1], e[2], e[3], e[4], e[5])
    \/ \E w \in Workers : SampleGrid(w)
    \/ \E w \in Workers : ReduceStep(w)
    \/ \E w \in Workers : StoreElement(w)
    \/ Return

Spec == Init /\ [][Next]_vars

SpecAny == InitAny /\ [][Next]_vars

SpecWorkers == InitWorkers /\ [][Next]_vars

(***************************************************************************)
(* The quantities the properties speak of, stated from the inputs.         *)
(***************************************************************************)
MapHeight == Size(data[0][0])
MapWidth == Size(data[0][0][0])

\* the sample of worker w's last reduction step is a real one
Sampled(w) == smp[w] # NoSmp

\* scaled start and end of ROI (n, i) along h and w
StartH(n, i) == RMul(rois[n][i][2], spatial_scale)
StartW(n, i) == RMul(rois[n][i][1], spatial_scale)
EndH(n, i) == RMul(rois[n][i][4], spatial_scale)
EndW(n, i) == RMul(rois[n][i][3], spatial_scale)

ExtentH(n, i) == RMax(RSub(EndH(n, i), StartH(n, i)), One)
ExtentW(n, i) == RMax(RSub(EndW(n, i), StartW(n, i)), One)

BinH(n, i) == RDiv(ExtentH(n, i), FromInt(env.pooled_size_h))
BinW(n, i) == RDiv(ExtentW(n, i), FromInt(env.pooled_size_w))

GridH(n, i) == IF sample_ratio > 0 THEN sample_ratio ELSE RCeil(BinH(n, i))
GridW(n, i) == IF sample_ratio > 0 THEN sample_ratio ELSE RCeil(BinW(n, i))

\* y = start_h*spatial_scale + ph*bin_h + (rh+1)*bin_h/(grid_h+1)
PointY(n, i, ph, r) ==
    RAdd(RAdd(StartH(n, i), RMul(FromInt(ph), BinH(n, i))),
         RDiv(RMul(FromInt(r + 1), BinH(n, i)), FromInt(GridH(n, i) + 1)))

PointX(n, i, pw, r) ==
    RAdd(RAdd(StartW(n, i), RMul(FromInt(pw), BinW(n, i))),
         RDiv(RMul(FromInt(r + 1), BinW(n, i)), FromInt(GridW(n, i) + 1)))

\* the bilinear samples of bin (ph, pw) of ROI (n, i) on channel c
BinSamples(n, i, c, ph, pw) ==
    {_bilinear(n, c, PointY(n, i, ph, r), PointX(n, i, pw, w)) :
        r \in 0..(GridH(n, i) - 1), w \in 0..(GridW(n, i) - 1)}

IsMaxOf(m, S) == m \in S /\ \A v \in S : RLe(v, m)

\* output changes only when StoreElement writes an element, which leaves its
\* worker between two elements: every value output ever has is seen there
BetweenElements == \E w \in Workers : at[w] = "idle"

\* C1: every output element is the maximum, over the grid_h x grid_w sample
\* points of its bin, of the bilinear sample of data[n, c] at
\* y = start_h*scale + ph*bin_h + (rh+1)*bin_h/(grid_h+1) and the like for x.
C1_ElementIsMaxOfSamples ==
    BetweenElements =>
        \A e \in DOMAIN output :
            IsMaxOf(output[e], BinSamples(e[1], e[2], e[3], e[4], e[5]))

\* an element reduced from several samples of different value is written
C1_Witness ==
    \E e \in DOMAIN output :
        /\ GridH(e[1], e[2]) * GridW(e[1], e[2]) >= 2
        /\ Cardinality(BinSamples(e[1], e[2], e[3], e[4], e[5])) >= 2
        /\ output[e] # Zero

\* C2 as stated: a sample with y < -1, x < -1, y > H-1 or x > W-1 (H, W the
\* sizes of the map) yields exactly 0.
C2_ZeroBeyondLastIndex ==
    \A w \in Workers :
        (\/ RLt(smp[w].y, FromInt(-1))
         \/ RLt(smp[w].x, FromInt(-1))
         \/ RLt(FromInt(MapHeight - 1), smp[w].y)
         \/ RLt(FromInt(MapWidth - 1), smp[w].x))
        => smp[w].val = Zero

\* C2 amended: a sample with y < -1, x < -1, y > H or x > W (H, W the sizes
\* of the map), tested on the coordinate before it is clamped, yields exactly
\* 0 and loads nothing from the feature map.
C2_ZeroBeyondSize ==
    \A w \in Workers :
        (\/ RLt(smp[w].y, FromInt(-1))
         \/ RLt(smp[w].x, FromInt(-1))
         \/ RLt(FromInt(MapHeight), smp[w].y)
         \/ RLt(FromInt(MapWidth), smp[w].x))
        => smp[w].val = Zero /\ smp[w].loads = {} /\ smp[w].outside

\* a sample above the last row of a non-zero map was evaluated to zero
C2_Witness ==
    \E w \in Workers :
        /\ Sampled(w)
        /\ RLt(FromInt(MapHeight), smp[w].y)
        /\ RLe(Zero, smp[w].x) /\ RLe(smp[w].x, FromInt(MapWidth - 1))
        /\ smp[w].val = Zero

\* C3: the extent used for binning is max(end - start, 1.0) per axis after
\* scaling: never zero or negative, exactly 1.0 when end <= start, and the
\* scaled start is used unchanged (bin (ph, pw) starts at start + ph*bin).
C3_ExtentFloored ==
    \A w \in Workers : at[w] \in {"roi", "reduce"} =>
        LET n == idx[w][1]
            i == idx[w][2]
            l == loc[w]
        IN  /\ l.roi_h = RMax(RSub(EndH(n, i), StartH(n, i)), One)
            /\ l.roi_w = RMax(RSub(EndW(n, i), StartW(n, i)), One)
            /\ RLt(Zero, l.roi_h) /\ RLt(Zero, l.roi_w)
            /\ RLe(EndH(n, i), StartH(n, i)) => l.roi_h = One
            /\ RLe(EndW(n, i), StartW(n, i)) => l.roi_w = One
            /\ at[w] = "roi" => /\ l.roi_start_h = StartH(n, i)
                                /\ l.roi_start_w = StartW(n, i)
            /\ at[w] = "reduce" =>
                /\ l.roi_start_h = RAdd(StartH(n, i), RMul(FromInt(idx[w][4]), l.bin_h))
                /\ l.roi_start_w = RAdd(StartW(n, i), RMul(FromInt(idx[w][5]), l.bin_w))

\* a ROI with end < start along h and a negative start along w is mapped
C3_Witness ==
    \E w \in Workers :
        /\ at[w] = "roi"
        /\ RLt(EndH(idx[w][1], idx[w][2]), StartH(idx[w][1], idx[w][2]))
        /\ RLt(StartW(idx[w][1], idx[w][2]), Zero)
        /\ loc[w].roi_h = One

\* C4: for every ROI, positive pooled sizes and every integer sample_ratio,
\* grid_h >= 1 and grid_w >= 1: no element is reduced from an empty set.
C4_GridAtLeastOne ==
    /\ \A w \in Workers : at[w] = "reduce" => /\ loc[w].roi_bin_grid_h >= 1
                                              /\ loc[w].roi_bin_grid_w >= 1
                                              /\ loc[w].count >= 1
    /\ \A e \in DOMAIN output : output[e] # min_value

\* the grid of a degenerate ROI under sample_ratio = 0 is being reduced
C4_Witness ==
    \E w \in Workers :
        /\ at[w] = "reduce"
        /\ sample_ratio = 0
        /\ RLe(EndH(idx[w][1], idx[w][2]), StartH(idx[w][1], idx[w][2]))
        /\ loc[w].roi_bin_grid_h = 1

\* C5: sample_ratio > 0 gives grid_h = grid_w = sample_ratio; sample_ratio =
\* -1 gives grid_h = ceil(bin_h), grid_w = ceil(bin_w); and for a ROI with
\* ceil(bin_h) = ceil(bin_w) = k the adaptive call and the call with
\* sample_ratio = k use the same grid and produce the same elements.
C5_GridConsistent ==
    /\ \A w \in Workers : at[w] = "reduce" /\ sample_ratio > 0 =>
        loc[w].roi_bin_grid_h = sample_ratio /\ loc[w].roi_bin_grid_w = sample_ratio
    /\ \A w \in Workers : at[w] = "reduce" /\ sample_ratio = -1 =>
        /\ loc[w].roi_bin_grid_h = RCeil(loc[w].bin_h)
        /\ loc[w].roi_bin_grid_w = RCeil(loc[w].bin_w)
    /\ BetweenElements => \A e \in DOMAIN output :
        LET k == RCeil(BinH(e[1], e[2]))
            other == IF sample_ratio = -1 THEN k ELSE -1
        IN  (RCeil(BinW(e[1], e[2])) = k /\ sample_ratio \in {-1, k}) =>
                /\ GridSizes(ExtentH(e[1], e[2]), ExtentW(e[1], e[2]),
                             env.pooled_size_h, env.pooled_size_w, other)
                   = [h |-> k, w |-> k]
                /\ output[e] = SampleOf(rois, other, e[1], e[2], e[3], e[4], e[5])

\* an adaptive call wrote an element of a ROI with ceil(bin_h) = ceil(bin_w) = 2
C5_Witness ==
    /\ sample_ratio = -1
    /\ \E e \in DOMAIN output :
        /\ RCeil(BinH(e[1], e[2])) = 2
        /\ RCeil(BinW(e[1], e[2])) = 2
        /\ output[e] # Zero

\* C6: a call whose ROI tensor has more images than the feature map has
\* batch rows fails before any output element is written (no element is ever
\* written, no tensor is returned), and the feature map is never read at a
\* batch index >= batch.
C6_BatchMismatchRejected ==
    /\ (Size(rois) > Size(data) /\ PooledH(pooled_size) > 0 /\ PooledW(pooled_size) > 0) =>
        /\ pc # "done"
        /\ output = <<>>
    /\ \A w \in Workers : \A l \in smp[w].loads : l[1] < Size(data)

\* C7: a call with pooled_size_h <= 0 or pooled_size_w <= 0, given as an int
\* or as a pair, fails with a ConfigurationError: no output tensor is built.
C7_PooledSizeRejected ==
    (PooledH(pooled_size) <= 0 \/ PooledW(pooled_size) <= 0) =>
        pc \in {"call", "ConfigurationError"}

\* C8: every sample that is not classified outside reads its four
\* neighbouring grid points at rows in 0..H-1 and columns in 0..W-1.
C8_LoadsInBounds ==
    \A w \in Workers : \A l \in smp[w].loads :
        l[3] \in 0..(MapHeight - 1) /\ l[4] \in 0..(MapWidth - 1)

\* a sample between the last row and the map's height, left of column 0, is
\* interpolated
C8_Witness ==
    \E w \in Workers :
        /\ Sampled(w)
        /\ ~smp[w].outside
        /\ smp[w].loads # {}
        /\ RLt(FromInt(MapHeight - 1), smp[w].y)
        /\ RLt(smp[w].x, Zero)

\* boxes put in the place of the other ROIs
AltBoxes == {<<FromInt(0), FromInt(0), FromInt(2), FromInt(2)>>,
             <<FromInt(3), FromInt(-1), FromInt(1), FromInt(1)>>,
             <<FromInt(-4), FromInt(1), FromInt(-3), FromInt(1)>>}

\* the ROI tensors that agree with rois on ROI (n, i) and hold box b elsewhere
Variants(n, i) ==
    {[nn \in DOMAIN rois |-> [ii \in DOMAIN rois[nn] |->
        IF nn = n /\ ii = i THEN rois[n][i] ELSE b]] : b \in AltBoxes}

\* what is left of worker w's reduction, continued from its own locals
Remaining(w) ==
    ReduceFrom(loc[w], idx[w][1], idx[w][3], rh[w], rw[w], acc[w])

\* two workers are in the middle of the reductions of two elements
Interleaved(v, w) ==
    /\ v # w
    /\ at[v] = "reduce" /\ Sampled(v) /\ ~ReduceDone(v)
    /\ at[w] = "reduce" /\ Sampled(w) /\ ~ReduceDone(w)

\* C9: an output element is a function of the feature map, ROIBatch[n, i] and
\* the configuration only, so the elements may be computed in any order and
\* interleaved across any number of workers, each writing a disjoint slice of
\* the output: no two workers hold the same element or one already written;
\* whatever the other workers have done, a worker's reduction continued from
\* its own locals gives _sample of its element; whatever the other ROIs are,
\* a written element has the same value (an element is written by the worker
\* owning it, which is idle right after: every written value is seen there);
\* and the finished tensor is the same under every order and interleaving.
C9_ElementIndependent ==
    /\ \A v \in Workers : at[v] # "idle" =>
        /\ idx[v] \in Slice(v) \ DOMAIN output
        /\ \A w \in Workers \ {v} : idx[v] \notin Slice(w)
    /\ \A w \in Workers : at[w] = "reduce" =>
        Remaining(w) = _sample(idx[w][1], idx[w][2], idx[w][3], idx[w][4], idx[w][5])
    /\ \A w \in Workers : at[w] = "idle" =>
        \A e \in Slice(w) \cap DOMAIN output : \A alt \in Variants(e[1], e[2]) :
            output[e] = SampleOf(alt, sample_ratio, e[1], e[2], e[3], e[4], e[5])
    /\ pc = "done" =>
        output = [e \in Elements(env) |-> _sample(e[1], e[2], e[3], e[4], e[5])]

\* two workers are in the middle of the reductions of the elements of two
\* different ROIs, their accumulators holding different values
C9_Witness ==
    \E v, w \in Workers :
        /\ Interleaved(v, w)
        /\ <<idx[v][1], idx[v][2]>> # <<idx[w][1], idx[w][2]>>
        /\ rois[idx[v][1]][idx[v][2]] # rois[idx[w][1]][idx[w][2]]
        /\ acc[v] # acc[w]
        /\ acc[v] # Zero

\* C10: every sample point lies strictly inside its own bin:
\* S_h + ph*bin_h < y < S_h + (ph+1)*bin_h, and the like for x.
C10_SampleInsideBin ==
    \A w \in Workers : Sampled(w) =>
        LET n == idx[w][1]
            i == idx[w][2]
            lo_h == RAdd(StartH(n, i), RMul(FromInt(idx[w][4]), BinH(n, i)))
            hi_h == RAdd(StartH(n, i), RMul(FromInt(idx[w][4] + 1), BinH(n, i)))
            lo_w == RAdd(StartW(n, i), RMul(FromInt(idx[w][5]), BinW(n, i)))
            hi_w == RAdd(StartW(n, i), RMul(FromInt(idx[w][5] + 1), BinW(n, i)))
        IN  /\ RLt(lo_h, smp[w].y) /\ RLt(smp[w].y, hi_h)
            /\ RLt(lo_w, smp[w].x) /\ RLt(smp[w].x, hi_w)
            /\ RLe(StartH(n, i), smp[w].y)
            /\ RLe(smp[w].y, RAdd(StartH(n, i), ExtentH(n, i)))
            /\ RLe(StartW(n, i), smp[w].x)
            /\ RLe(smp[w].x, RAdd(StartW(n, i), ExtentW(n, i)))

\* the last sample point of the second bin along h of a two-point grid
C10_Witness ==
    \E w \in Workers :
        /\ Sampled(w)
        /\ idx[w][4] = 1
        /\ loc[w].roi_bin_grid_h = 2
        /\ rh[w] = 2

====
